---- MODULE Spec2Model ----
\* Ban synchronisation of the websocket-backed integration
\* (src/bunker/integrations/custom.py on top of
\* src/bunker/integrations/integration.py): the BanRecord table, the four
\* ban/unban operations running as concurrent coroutines on one event loop,
\* the bulk request generators with their single retry pass, and the remote
\* backend answering the requests.
\*
\* One action is one stretch of a coroutine between two suspension points
\* (a storage round trip or a websocket round trip).
EXTENDS Integers, FiniteSets, Sequences, TLC

\* ---------------------------------------------------------------- bounds
NumPlayers == 2
NumIntegrations == 1
MaxCalls == 2
MaxRacers == 3
NumConfigs == 3
NumCommunities == 2
MaxTasks == 2
MaxLookups == 2
MaxClock == 4
MaxOps == 2

Players == 1..NumPlayers
Integrations == 1..NumIntegrations
\* Coroutines running any mix of the four operations.
Calls == 1..MaxCalls
\* Coroutines of the ban_player race.
Racers == 1..MaxRacers
\* Persisted integration configs and communities of the dispatcher.
ConfigIds == 1..NumConfigs
Communities == 1..NumCommunities
\* Tasks of one asyncio.gather.
Tasks == 1..MaxTasks
Slots == Calls \cup Racers \cup Tasks
\* Coroutines looking a player up in the report-presence cache.
Lookups == 1..MaxLookups
\* Coroutines running enable, disable or save_config on an instance.
Ops == 1..MaxOps

\* The ban identifier the remote backend assigns to its ban of player p. It is
\* the backend's own value, never equal to a player id.
RemoteBanId(p) == NumPlayers + p
BanIds == {RemoteBanId(p) : p \in Players}

VARIABLES
    bans,      \* committed rows of the PlayerBan table
    calls,     \* per coroutine: the frame of the operation it is running
    configs,   \* rows of the Integration table, by config id
    disp,      \* the frame of the event handler of bans.py that is running
    cache,     \* the TTLCache of scan_players: per player, its entry if any
    clock,     \* the timer of the TTLCache
    reported,  \* storage: the players that have a report
    lookups,   \* per coroutine: the frame of the lookup it is running
    integration, \* an Integration instance: its in-memory config, its websocket
    ops,       \* per coroutine: the frame of the enable / disable / save_config
    manager    \* the IntegrationManager and the frame of load_all

banVars == <<bans, calls>>
dispVars == <<configs, disp>>
cacheVars == <<cache, clock, reported, lookups>>
\* What the ban operations and the handlers of bans.py leave alone.
lifeVars == <<integration, ops>>
auxVars == <<cacheVars, lifeVars, manager>>
notBanVars == <<dispVars, auxVars>>
vars == <<banVars, dispVars, auxVars>>

\* ------------------------------------------------------------ BanRecord
\* A row of PlayerBan (schemas._PlayerBanBase).
PlayerBan(i, p, rid) == [integration_id |-> i, player_id |-> p, remote_id |-> rid]

\* Integration.get_ban: the rows stored under the primary key, the pair of the
\* key custom.py passes (the player id) and the integration's config id;
\* {} is Python's None.
get_ban(table, i, p) == {r \in table : r.integration_id = i /\ r.player_id = p}

\* ------------------------------------------------------------ frames
\* The locals of one running operation. result is "none" while it runs, "ok"
\* on return, else the exception that left it, with the ids that exception
\* carries in err_ids. sent counts the requests the operation has sent.
\* acked is not a local of the code: it is the record of the ids the backend
\* confirmed in its replies to this operation.
Idle == [op |-> "none", pc |-> "idle", integ |-> 0, batch |-> {}, todo |-> {},
         idmap |-> {}, db_ban |-> {}, req |-> {}, sent |-> 0, got |-> {}, pend |-> {},
         raise |-> "none", result |-> "none", err_ids |-> {}, acked |-> {}]

\* Rows another open transaction has deleted and flushed but not committed:
\* the row locks a writer on the same key has to wait for.
LockedByOthers(c) == UNION {calls[d].pend : d \in Slots \ {c}}

KeyLocked(c, i, p) == get_ban(LockedByOthers(c), i, p) # {}

\* A coroutine ends: normal return or the exception leaving the operation.
Finish(f, res, ids) ==
    [f EXCEPT !.pc = "done", !.result = res, !.err_ids = ids,
              !.req = {}, !.todo = {}, !.idmap = {}, !.db_ban = {}, !.pend = {},
              !.raise = "none"]

\* ------------------------------------------------------ Integration rows
\* enums.IntegrationType, the variant tag of a config.
IntegrationTypes == {"BATTLEMETRICS", "COMMUNITY_RCON", "CUSTOM"}

\* A row of the Integration table without its id
\* (schemas.IntegrationConfigParams): the owning community, the variant tag,
\* the enabled flag and, of the variant-specific fields, organization_id
\* ("none" is None).
IntegrationConfig(community_id, integration_type, enabled, organization_id) ==
    [community_id |-> community_id, integration_type |-> integration_type,
     enabled |-> enabled, organization_id |-> organization_id]

\* The config an Integration instance holds in memory: the fields of a row
\* and its id, 0 (None) before the config was ever saved.
Config(id, row) ==
    [id |-> id, community_id |-> row.community_id,
     integration_type |-> row.integration_type, enabled |-> row.enabled,
     organization_id |-> row.organization_id]

\* config.model_dump() without the id: the values of the row.
Row(config) ==
    IntegrationConfig(config.community_id, config.integration_type,
                      config.enabled, config.organization_id)

\* No enable, disable or save_config is running in the coroutine. before is
\* not a local of the code: it records the in-memory config at the call.
IdleOp == [op |-> "none", pc |-> "idle",
           before |-> Config(0, IntegrationConfig(0, "none", FALSE, "none")),
           values |-> Config(0, IntegrationConfig(0, "none", FALSE, "none")),
           db_config |-> Config(0, IntegrationConfig(0, "none", FALSE, "none")),
           result |-> "none"]

\* The CustomIntegration instance of a saved, enabled config, its websocket
\* started, nothing running on it.
InitLife ==
    /\ integration = [config |-> Config(1, IntegrationConfig(1, "CUSTOM", TRUE, "none")),
                      ws |-> "running"]
    /\ ops = [o \in Ops |-> IdleOp]

\* No event handler is running.
NoEvent == [event |-> "none", pc |-> "idle", community |-> 0, players |-> {},
            responses |-> {}, bans |-> {}, coros |-> <<>>, started |-> {},
            result |-> "none"]

\* --------------------------------------------------- report-presence cache
\* The time-to-live of an entry of the TTLCache (ttl=60*10 seconds), counted
\* in ticks of the timer of five minutes each.
ttl == 2

\* The slot of a key in the TTLCache: no item, or the item with its value
\* and the time it expires at.
NoEntry == [present |-> FALSE, value |-> FALSE, expires |-> 0]
Entry(value, expires) == [present |-> TRUE, value |-> value, expires |-> expires]

\* No lookup is running in the coroutine.
IdleLookup == [pc |-> "idle", player |-> 0, is_reported |-> FALSE, answer |-> {},
               queried |-> FALSE]

\* load_all has not been called: no IntegrationManager yet.
InitManager ==
    manager = [pc |-> "idle", todo |-> <<>>, registry |-> {}, logged |-> {}]

InitCache ==
    /\ cache = [p \in Players |-> NoEntry]
    /\ clock = 0
    /\ reported = {}
    /\ lookups = [s \in Lookups |-> IdleLookup]

\* The state the ban operations of one integration are studied in: an empty
\* PlayerBan table, every coroutine idle, no event being handled.
Init ==
    /\ bans = {}
    /\ calls = [c \in Slots |-> Idle]
    /\ configs = [i \in ConfigIds |-> IntegrationConfig(1, "CUSTOM", TRUE, "none")]
    /\ disp = NoEvent
    /\ InitCache
    /\ InitManager
    /\ InitLife

\* ------------------------------------------------------ remote backend
\* What the backend can answer to one request carrying the ids req:
\*   "ok"      full success, echoing every id of the request;
\*   "partial" the command error "Could not ban all players" / "Could not
\*             unban all players", naming the ids that did succeed;
\*   "error"   any other failure (another command error, timeout, disconnect).
Replies(req) ==
    {[kind |-> "ok", ids |-> req]}
        \cup {[kind |-> "partial", ids |-> s] : s \in SUBSET req}
        \cup {[kind |-> "error", ids |-> {}]}

\* ---------------------------------------------------- request generators
\* A generator that sends the whole batch again on a partial failure.
add_multiple_bans_resend_all(player_ids, reply, partial_retry) ==
    LET successful_ids == reply.ids
        pairs == {<<p, RemoteBanId(p)>> : p \in successful_ids}
    IN  CASE reply.kind = "ok" ->
                [yield |-> pairs, next |-> "end", retry |-> {}, error |-> "none"]
          [] reply.kind = "error" ->
                [yield |-> {}, next |-> "raise", retry |-> {}, error |-> "RemoteFailure"]
          [] reply.kind = "partial" /\ ~partial_retry ->
                [yield |-> pairs, next |-> "raise", retry |-> {},
                 error |-> "IntegrationCommandError"]
          [] reply.kind = "partial" /\ partial_retry ->
                [yield |-> pairs, next |-> "retry", retry |-> player_ids,
                 error |-> "none"]

\* One pass of the async generator add_multiple_bans over the reply to its
\* request: the (player_id, ban_id) pairs it yields and how the pass ends:
\*   "end"    the generator is exhausted;
\*   "raise"  it raises error after the yields;
\*   "retry"  it recurses with partial_retry=False on the ids retry.
add_multiple_bans(player_ids, reply, partial_retry) ==
    LET successful_ids == reply.ids
        pairs == {<<p, RemoteBanId(p)>> : p \in successful_ids}
    IN  CASE reply.kind = "ok" ->
                [yield |-> pairs, next |-> "end", retry |-> {}, error |-> "none"]
          [] reply.kind = "error" ->
                [yield |-> {}, next |-> "raise", retry |-> {}, error |-> "RemoteFailure"]
          [] reply.kind = "partial" /\ ~partial_retry ->
                [yield |-> pairs, next |-> "raise", retry |-> {},
                 error |-> "IntegrationCommandError"]
          [] reply.kind = "partial" /\ partial_retry ->
                [yield |-> pairs, next |-> "retry",
                 retry |-> {k \in player_ids : k \notin successful_ids},
                 error |-> "none"]

\* A generator that takes any error for a partial failure and retries.
remove_multiple_bans_retries_any_error(ban_ids, reply, partial_retry) ==
    LET successful_ids == reply.ids
    IN  CASE reply.kind = "ok" ->
                [yield |-> successful_ids, next |-> "end", retry |-> {}, error |-> "none"]
          [] reply.kind \in {"partial", "error"} /\ ~partial_retry ->
                [yield |-> successful_ids, next |-> "raise", retry |-> {},
                 error |-> IF reply.kind = "error" THEN "RemoteFailure"
                           ELSE "IntegrationCommandError"]
          [] reply.kind \in {"partial", "error"} /\ partial_retry ->
                [yield |-> successful_ids, next |-> "retry",
                 retry |-> ban_ids \ successful_ids, error |-> "none"]

\* The same pass of remove_multiple_bans, which yields ban ids.
remove_multiple_bans(ban_ids, reply, partial_retry) ==
    LET successful_ids == reply.ids
    IN  CASE reply.kind = "ok" ->
                [yield |-> successful_ids, next |-> "end", retry |-> {}, error |-> "none"]
          [] reply.kind = "error" ->
                [yield |-> {}, next |-> "raise", retry |-> {}, error |-> "RemoteFailure"]
          [] reply.kind = "partial" /\ ~partial_retry ->
                [yield |-> successful_ids, next |-> "raise", retry |-> {},
                 error |-> "IntegrationCommandError"]
          [] reply.kind = "partial" /\ partial_retry ->
                [yield |-> successful_ids, next |-> "retry",
                 retry |-> ban_ids \ successful_ids, error |-> "none"]

\* A generator whose recursive call retries as well.
PartialRetry_always(f) == TRUE

\* The generator call a request belongs to: the first request of an operation
\* is made with the default partial_retry=True, the recursive one with False.
PartialRetry(f) == f.sent = 1

\* ws.execute of the recursive call: the second request goes out.
SendRetry(f, ids) == [f EXCEPT !.req = ids, !.sent = f.sent + 1]

\* add_ban / remove_ban: anext() runs the generator up to its first yield.
\* "item": a value came back; "retry": the generator sent its second request
\* before yielding anything; "raise": the generator raised, or ended without
\* a value (StopAsyncIteration).
anext(g) ==
    IF g.yield # {} THEN "item"
    ELSE IF g.next = "retry" THEN "retry"
    ELSE "raise"

\* ------------------------------------------------------------ ban_player
\* set_ban_id on a table without the unique key: the row is always added.
set_ban_id_no_unique_key(table, i, p, ban_id) ==
    table \cup {PlayerBan(i, p, ban_id)}

\* set_ban_id without its `except IntegrityError`: the database error passes.
set_ban_id_result_uncaught(table, i, p) ==
    IF get_ban(table, i, p) # {} THEN "IntegrityError" ELSE "ok"

\* Integration.set_ban_id: INSERT and COMMIT. The unique key
\* (player, integration) refuses a second row (IntegrityError).
set_ban_id(table, i, p, ban_id) ==
    IF get_ban(table, i, p) # {} THEN table
    ELSE table \cup {PlayerBan(i, p, ban_id)}

\* What set_ban_id ends with: IntegrityError is turned into AlreadyBannedError.
set_ban_id_result(table, i, p) ==
    IF get_ban(table, i, p) # {} THEN "AlreadyBannedError" ELSE "ok"

\* ban_player without its guard: the request goes out whatever get_ban found.
ban_player_no_guard(table, i, p) ==
    [Idle EXCEPT !.op = "ban_player", !.integ = i, !.batch = {p},
                 !.pc = "wait", !.req = {p}, !.sent = 1]

\* ban_player up to its first remote request: the guard on the BanRecord.
ban_player_guard(table, i, p) ==
    LET f == [Idle EXCEPT !.op = "ban_player", !.integ = i, !.batch = {p}]
        db_ban == get_ban(table, i, p)
    IN  IF db_ban # {} THEN Finish(f, "AlreadyBannedError", {p})
        ELSE [f EXCEPT !.pc = "wait", !.req = {p}, !.sent = 1]

\* ban_player without the try/except around add_ban: the generator's own
\* exception leaves the operation.
ban_player_add_ban_unwrapped(f, reply) ==
    LET g == add_multiple_bans(f.req, reply, PartialRetry(f))
    IN  CASE anext(g) = "item"  -> [f EXCEPT !.pc = "commit", !.req = {}, !.got = g.yield]
          [] anext(g) = "retry" -> SendRetry(f, g.retry)
          [] anext(g) = "raise" ->
                Finish(f, IF g.next = "raise" THEN g.error ELSE "StopAsyncIteration", {})

\* ban_player from the reply to its request: try add_ban, except Exception.
ban_player_add_ban(f, reply) ==
    LET g == add_multiple_bans(f.req, reply, PartialRetry(f))
    IN  CASE anext(g) = "item"  -> [f EXCEPT !.pc = "commit", !.req = {}, !.got = g.yield]
          [] anext(g) = "retry" -> SendRetry(f, g.retry)
          [] anext(g) = "raise" -> Finish(f, "IntegrationBanError", f.batch)

BanPlayerCall(c, i, p) ==
    /\ calls[c].pc = "idle"
    /\ calls' = [calls EXCEPT ![c] = ban_player_guard(bans, i, p)]
    /\ UNCHANGED bans

\* The backend's reply reaches the operation: f2 is the frame the code leaves.
Acked(f, f2, reply) == [f2 EXCEPT !.acked = f.acked \cup reply.ids]

BanPlayerReplyWith(c, reply) ==
    LET f == calls[c]
    IN  /\ f.op = "ban_player" /\ f.pc = "wait"
        /\ calls' = [calls EXCEPT ![c] = Acked(f, ban_player_add_ban(f, reply), reply)]
        /\ UNCHANGED bans

BanPlayerReply(c) ==
    \E reply \in Replies(calls[c].req) : BanPlayerReplyWith(c, reply)

BanPlayerCommit(c) ==
    LET f == calls[c]
        p == CHOOSE q \in f.batch : TRUE
        res == set_ban_id_result(bans, f.integ, p)
    IN  /\ f.op = "ban_player" /\ f.pc = "commit"
        /\ ~KeyLocked(c, f.integ, p)
        /\ bans' = set_ban_id(bans, f.integ, p, p)
        /\ calls' = [calls EXCEPT ![c] =
                        Finish(f, res, IF res = "ok" THEN {} ELSE {p})]

\* ---------------------------------------------------------- unban_player
\* A session whose flushed deletes are durable at once, exception or not.
session_end_always_commits(table, deleted, exc) == table \ deleted

\* The end of `async with session_factory.begin()`: the transaction commits
\* the flushed deletes when the block ends normally and rolls them back when
\* an exception leaves it.
session_end(table, deleted, exc) ==
    IF exc THEN table ELSE table \ deleted

\* unban_player without its guard: it goes on with whatever get_ban found.
unban_player_no_guard(table, i, p) ==
    [Idle EXCEPT !.op = "unban_player", !.integ = i, !.batch = {p},
                 !.pc = "delete", !.db_ban = get_ban(table, i, p)]

\* unban_player up to the DELETE: the guard on the BanRecord.
unban_player_guard(table, i, p) ==
    LET f == [Idle EXCEPT !.op = "unban_player", !.integ = i, !.batch = {p}]
        db_ban == get_ban(table, i, p)
    IN  IF db_ban = {} THEN Finish(f, "NotFoundError", {})
        ELSE [f EXCEPT !.pc = "delete", !.db_ban = db_ban]

\* db.delete(db_ban) and db.flush(), then the request of
\* remove_ban(db_ban.remote_id) goes out. The DELETE is by primary key and
\* stays uncommitted.
unban_player_delete(table, f) ==
    LET p == CHOOSE q \in f.batch : TRUE
    IN  [f EXCEPT !.pc = "wait", !.pend = get_ban(table, f.integ, p),
                  !.req = {r.remote_id : r \in f.db_ban}, !.sent = 1]

\* unban_player from the reply to its request: try remove_ban, except Exception.
unban_player_remove_ban(f, reply) ==
    LET g == remove_multiple_bans(f.req, reply, PartialRetry(f))
    IN  CASE anext(g) = "item"  -> [f EXCEPT !.pc = "commit", !.req = {}, !.got = g.yield]
          [] anext(g) = "retry" -> SendRetry(f, g.retry)
          [] anext(g) = "raise" -> Finish(f, "IntegrationBanError", f.batch)

UnbanPlayerCall(c, i, p) ==
    /\ calls[c].pc = "idle"
    /\ calls' = [calls EXCEPT ![c] = unban_player_guard(bans, i, p)]
    /\ UNCHANGED bans

UnbanPlayerDelete(c) ==
    LET f == calls[c]
    IN  /\ f.op = "unban_player" /\ f.pc = "delete"
        /\ \A q \in f.batch : ~KeyLocked(c, f.integ, q)
        /\ calls' = [calls EXCEPT ![c] = unban_player_delete(bans, f)]
        /\ UNCHANGED bans

UnbanPlayerReply(c) ==
    LET f == calls[c]
    IN  /\ f.op = "unban_player" /\ f.pc = "wait"
        /\ \E reply \in Replies(f.req) :
            LET f2 == unban_player_remove_ban(f, reply)
            IN  /\ calls' = [calls EXCEPT ![c] = Acked(f, f2, reply)]
                /\ bans' = IF f2.pc = "done" THEN session_end(bans, f.pend, TRUE)
                           ELSE bans

UnbanPlayerCommit(c) ==
    LET f == calls[c]
    IN  /\ f.op = "unban_player" /\ f.pc = "commit"
        /\ bans' = session_end(bans, f.pend, FALSE)
        /\ calls' = [calls EXCEPT ![c] = Finish(f, "ok", {})]

\* ------------------------------------------------------ bulk_ban_players
\* An INSERT ... ON CONFLICT DO UPDATE: the row of an already banned player
\* takes the new ban id.
set_multiple_ban_ids_upsert(table, i, ban_ids) ==
    {r \in table : ~(r.integration_id = i /\ r.player_id \in {b[1] : b \in ban_ids})}
        \cup {PlayerBan(i, b[1], b[2]) : b \in ban_ids}

\* Integration.set_multiple_ban_ids: INSERT ... ON CONFLICT DO NOTHING on the
\* key (player, integration), and COMMIT.
set_multiple_ban_ids(table, i, ban_ids) ==
    table \cup {PlayerBan(i, b[1], b[2]) :
                    b \in {x \in ban_ids : get_ban(table, i, x[1]) = {}}}

\* A bulk operation that writes in an `else` block instead of `finally`: the
\* collected ids are lost when the generator raised.
bulk_else(f, collected, g, carried) ==
    LET exc == IF g.next = "raise" THEN g.error ELSE "none"
    IN  IF collected # {} /\ exc = "none"
        THEN [f EXCEPT !.pc = "commit", !.req = {}, !.got = collected,
                       !.raise = exc, !.err_ids = carried]
        ELSE Finish(f, IF exc = "none" THEN "ok" ELSE exc, carried)

\* What leaves a bulk operation once its generator has ended with how
\* ("end" or "raise"): the `finally` block has a write to make when ids were
\* collected, and the pending exception passes after it.
bulk_finally(f, collected, g, carried) ==
    LET exc == IF g.next = "raise" THEN g.error ELSE "none"
    IN  IF collected # {}
        THEN [f EXCEPT !.pc = "commit", !.req = {}, !.got = collected,
                       !.raise = exc, !.err_ids = carried]
        ELSE Finish(f, IF exc = "none" THEN "ok" ELSE exc, carried)

\* bulk_ban_players from a reply: the `async for` over add_multiple_bans
\* appends every yielded pair to ban_ids.
bulk_ban_players_collect(f, reply) ==
    LET g == add_multiple_bans(f.req, reply, PartialRetry(f))
        ban_ids == f.got \cup g.yield
    IN  IF g.next = "retry"
        THEN [SendRetry(f, g.retry) EXCEPT !.got = ban_ids]
        ELSE bulk_finally(f, ban_ids, g,
                          IF g.error = "IntegrationCommandError" THEN reply.ids ELSE {})

\* bulk_ban_players up to its first request: no guard, no storage access.
bulk_ban_players_begin(i, batch) ==
    [Idle EXCEPT !.op = "bulk_ban_players", !.integ = i, !.batch = batch,
                 !.pc = "wait", !.req = batch, !.sent = 1]

BulkBanCall(c, i, batch) ==
    /\ calls[c].pc = "idle"
    /\ calls' = [calls EXCEPT ![c] = bulk_ban_players_begin(i, batch)]
    /\ UNCHANGED bans

BulkBanReply(c) ==
    LET f == calls[c]
    IN  /\ f.op = "bulk_ban_players" /\ f.pc = "wait"
        /\ \E reply \in Replies(f.req) :
            calls' = [calls EXCEPT ![c] =
                         Acked(f, bulk_ban_players_collect(f, reply), reply)]
        /\ UNCHANGED bans

BulkBanCommit(c) ==
    LET f == calls[c]
    IN  /\ f.op = "bulk_ban_players" /\ f.pc = "commit"
        /\ \A b \in f.got : ~KeyLocked(c, f.integ, b[1])
        /\ bans' = set_multiple_ban_ids(bans, f.integ, f.got)
        /\ calls' = [calls EXCEPT ![c] =
                        Finish(f, IF f.raise = "none" THEN "ok" ELSE f.raise, f.err_ids)]

\* ---------------------------------------------------- bulk_unban_players
\* The dict player_ids of bulk_unban_players, remote ban id -> player id, as
\* a set of <<key, value>> pairs.
DictSet(d, k, v) == {e \in d : e[1] # k} \cup {<<k, v>>}
DictKeys(d) == {e[1] : e \in d}
DictGet(d, k) == (CHOOSE e \in d : e[1] = k)[2]

\* discard_multiple_ban_ids without its filter on the players: every row of
\* the integration goes.
discard_every_ban_id(table, i, player_ids) ==
    {r \in table : r.integration_id # i}

\* Integration.discard_multiple_ban_ids: DELETE the rows of the given players
\* under this integration, and COMMIT.
discard_multiple_ban_ids(table, i, player_ids) ==
    {r \in table : ~(r.integration_id = i /\ r.player_id \in player_ids)}

\* One turn of the loop over the responses: ban = get_ban(player_id), then
\* player_ids[ban.remote_id] = player_id. A missing ban is None, and
\* None.remote_id raises AttributeError. After the last turn the request of
\* remove_multiple_bans(player_ids.keys()) goes out.
bulk_unban_players_read(table, f, p) ==
    LET ban == get_ban(table, f.integ, p)
        player_ids == DictSet(f.idmap, (CHOOSE r \in ban : TRUE).remote_id, p)
        rest == f.todo \ {p}
    IN  IF ban = {} THEN Finish(f, "AttributeError", {})
        ELSE IF rest # {} THEN [f EXCEPT !.idmap = player_ids, !.todo = rest]
        ELSE [f EXCEPT !.idmap = player_ids, !.todo = {}, !.pc = "wait",
                       !.req = DictKeys(player_ids), !.sent = 1]

\* bulk_unban_players from a reply: the `async for` over remove_multiple_bans
\* appends player_ids[ban_id] for every yielded ban id.
bulk_unban_players_collect(f, reply) ==
    LET g == remove_multiple_bans(f.req, reply, PartialRetry(f))
        successful_player_ids == f.got \cup {DictGet(f.idmap, b) : b \in g.yield}
    IN  IF g.next = "retry"
        THEN [SendRetry(f, g.retry) EXCEPT !.got = successful_player_ids]
        ELSE bulk_finally(f, successful_player_ids, g,
                          IF g.error = "IntegrationCommandError" THEN reply.ids ELSE {})

BulkUnbanCall(c, i, batch) ==
    /\ calls[c].pc = "idle"
    /\ calls' = [calls EXCEPT ![c] =
                    [Idle EXCEPT !.op = "bulk_unban_players", !.integ = i,
                                 !.batch = batch, !.pc = "read", !.todo = batch]]
    /\ UNCHANGED bans

BulkUnbanRead(c) ==
    LET f == calls[c]
    IN  /\ f.op = "bulk_unban_players" /\ f.pc = "read"
        /\ \E p \in f.todo :
            calls' = [calls EXCEPT ![c] = bulk_unban_players_read(bans, f, p)]
        /\ UNCHANGED bans

BulkUnbanReply(c) ==
    LET f == calls[c]
    IN  /\ f.op = "bulk_unban_players" /\ f.pc = "wait"
        /\ \E reply \in Replies(f.req) :
            calls' = [calls EXCEPT ![c] =
                         Acked(f, bulk_unban_players_collect(f, reply), reply)]
        /\ UNCHANGED bans

BulkUnbanCommit(c) ==
    LET f == calls[c]
    IN  /\ f.op = "bulk_unban_players" /\ f.pc = "commit"
        /\ \A p \in f.got : ~KeyLocked(c, f.integ, p)
        /\ bans' = discard_multiple_ban_ids(bans, f.integ, f.got)
        /\ calls' = [calls EXCEPT ![c] =
                        Finish(f, IF f.raise = "none" THEN "ok" ELSE f.raise, f.err_ids)]

\* ------------------------------------------------------ event dispatcher
\* A list holding the elements of a set, in the order storage returns them.
RECURSIVE SetToSeq(_)
SetToSeq(S) ==
    IF S = {} THEN <<>>
    ELSE LET x == CHOOSE y \in S : TRUE IN <<x>> \o SetToSeq(S \ {x})

\* bans.get_integration: the instance of the config's variant; a variant
\* without a branch raises TypeError.
get_integration(config) ==
    IF config.integration_type \in {"BATTLEMETRICS", "COMMUNITY_RCON"}
    THEN "instance" ELSE "TypeError"

\* community.integrations of get_community_by_id: the ids of all the configs
\* of the community, whatever their enabled flag.
community_integrations(cfgs, community_id) ==
    SetToSeq({i \in DOMAIN cfgs : cfgs[i].community_id = community_id})

\* crud.bans.get_player_bans_for_community: the bans of the player joined
\* with their integration, filtered on the integration's community.
get_player_bans_for_community(table, cfgs, player_id, community_id) ==
    {r \in table : /\ r.player_id = player_id
                   /\ r.integration_id \in DOMAIN cfgs
                   /\ cfgs[r.integration_id].community_id = community_id}

\* crud.bans.get_player_bans_without_responses: the bans of the given players
\* whose integration's community has no banned=true response for the player.
\* responses is the set of <<community, player>> pairs with such a response.
get_player_bans_without_responses(table, cfgs, responses, player_ids) ==
    {r \in table : /\ r.player_id \in player_ids
                   /\ r.integration_id \in DOMAIN cfgs
                   /\ <<cfgs[r.integration_id].community_id, r.player_id>> \notin responses}

\* One coroutine object of a handler: the operation, not yet running.
Coro(op, integration_id, player_id) ==
    [op |-> op, integ |-> integration_id, player |-> player_id]

\* The handler from its loop over the targets on: get_integration on each
\* config in turn, which may raise before any coroutine runs, then
\* asyncio.gather over the coroutines (which returns at once for none).
handler_gather(d, cfgs, op, targets) ==
    IF \E k \in DOMAIN targets : get_integration(cfgs[targets[k][1]]) = "TypeError"
    THEN [d EXCEPT !.pc = "done", !.result = "TypeError"]
    ELSE IF targets = <<>> THEN [d EXCEPT !.pc = "done", !.result = "ok"]
    ELSE [d EXCEPT !.pc = "gather",
                   !.coros = [k \in DOMAIN targets |->
                                 Coro(op, targets[k][1], targets[k][2])]]

\* bans.on_player_ban for the response of community_id on player_id.
on_player_ban(table, cfgs, community_id, player_id) ==
    LET integrations == community_integrations(cfgs, community_id)
        db_bans == get_player_bans_for_community(table, cfgs, player_id, community_id)
        d == [NoEvent EXCEPT !.event = "player_ban", !.community = community_id,
                             !.players = {player_id}, !.bans = db_bans]
        banned_by == {ban.integration_id : ban \in db_bans}
        todo == SelectSeq(integrations, LAMBDA i : i \notin banned_by)
    IN  IF Len(integrations) <= Cardinality(db_bans)
        THEN [d EXCEPT !.pc = "done", !.result = "ok"]
        ELSE handler_gather(d, cfgs, "ban_player",
                            [k \in DOMAIN todo |-> <<todo[k], player_id>>])

\* bans.on_player_unban for the response of community_id on player_id.
on_player_unban(table, cfgs, community_id, player_id) ==
    LET db_bans == get_player_bans_for_community(table, cfgs, player_id, community_id)
        d == [NoEvent EXCEPT !.event = "player_unban", !.community = community_id,
                             !.players = {player_id}, !.bans = db_bans]
        rows == SetToSeq(db_bans)
    IN  handler_gather(d, cfgs, "unban_player",
                       [k \in DOMAIN rows |-> <<rows[k].integration_id, player_id>>])

\* bans.on_report_delete for a report on player_ids.
on_report_delete(table, cfgs, responses, player_ids) ==
    LET db_bans == get_player_bans_without_responses(table, cfgs, responses, player_ids)
        d == [NoEvent EXCEPT !.event = "report_delete", !.players = player_ids,
                             !.responses = responses, !.bans = db_bans]
        rows == SetToSeq(db_bans)
    IN  handler_gather(d, cfgs, "unban_player",
                       [k \in DOMAIN rows |-> <<rows[k].integration_id, rows[k].player_id>>])

OnPlayerBan(community_id, player_id) ==
    /\ disp.pc = "idle"
    /\ disp' = on_player_ban(bans, configs, community_id, player_id)
    /\ UNCHANGED <<bans, calls, configs>>

OnPlayerUnban(community_id, player_id) ==
    /\ disp.pc = "idle"
    /\ disp' = on_player_unban(bans, configs, community_id, player_id)
    /\ UNCHANGED <<bans, calls, configs>>

\* The report is gone from storage; responses are the banned=true responses
\* storage still holds when the handler runs its query.
OnReportDelete(player_ids, responses) ==
    /\ disp.pc = "idle"
    /\ disp' = on_report_delete(bans, configs, responses, player_ids)
    /\ UNCHANGED <<bans, calls, configs>>

\* asyncio.gather has wrapped every coroutine in a task; task k runs the
\* first stretch of its operation.
TaskStart(k) ==
    /\ disp.pc \in {"gather", "done"}
    /\ k \in DOMAIN disp.coros /\ k \notin disp.started
    /\ LET co == disp.coros[k]
       IN  IF co.op = "ban_player" THEN BanPlayerCall(k, co.integ, co.player)
           ELSE UnbanPlayerCall(k, co.integ, co.player)
    /\ disp' = [disp EXCEPT !.started = disp.started \cup {k}]
    /\ UNCHANGED configs

\* A gather that cancels the tasks still running when one of them raises.
gather_cancels_siblings(cs, ks) ==
    [c \in DOMAIN cs |->
        IF c \in ks /\ cs[c].pc # "done" THEN Finish(cs[c], "CancelledError", {})
        ELSE cs[c]]

\* asyncio.gather(*coros) without return_exceptions, when a task raises: the
\* exception goes to the awaiting handler and the other tasks ks are left to
\* run.
gather_on_exception(cs, ks) == cs

\* The first exception of a task reaches the handler awaiting the gather.
GatherRaise(k) ==
    /\ disp.pc = "gather"
    /\ k \in disp.started
    /\ calls[k].pc = "done" /\ calls[k].result # "ok"
    /\ disp' = [disp EXCEPT !.pc = "done", !.result = calls[k].result]
    /\ calls' = gather_on_exception(calls, DOMAIN disp.coros \ {k})
    /\ UNCHANGED <<bans, configs>>

\* Every task has returned: the gather, and with it the handler, returns.
GatherReturn ==
    /\ disp.pc = "gather"
    /\ \A k \in DOMAIN disp.coros :
        k \in disp.started /\ calls[k].pc = "done" /\ calls[k].result = "ok"
    /\ disp' = [disp EXCEPT !.pc = "done", !.result = "ok"]
    /\ UNCHANGED <<bans, calls, configs>>

\* --------------------------------------------------------- scan_players
\* A TTLCache.get that never lets an item expire.
TTLCache_get_no_expiry(c, now, key) ==
    IF c[key].present THEN {c[key].value} ELSE {}

\* TTLCache.get(key): the value of the item if there is one that has not
\* expired, else None ({}). An item has expired once the timer has reached
\* its expiry time.
TTLCache_get(c, now, key) ==
    IF c[key].present /\ now < c[key].expires THEN {c[key].value} ELSE {}

\* TTLCache[key] = value: the expired items are dropped and the item of key
\* is replaced by one that expires ttl from now. (maxsize, 9999 items, is
\* never reached by the players of the model.)
TTLCache_setitem(c, now, key, value) ==
    [k \in DOMAIN c |->
        IF k = key THEN Entry(value, now + ttl)
        ELSE IF TTLCache_get(c, now, k) = {} THEN NoEntry
        ELSE c[k]]

\* A lookup that tests the cached value for truth: a cached False is a miss.
scan_players_get_truthy(c, now, player_id) ==
    LET cache_hit == TTLCache_get(c, now, player_id)
        f == [IdleLookup EXCEPT !.player = player_id]
    IN  IF cache_hit = {TRUE} THEN [f EXCEPT !.pc = "done", !.answer = cache_hit]
        ELSE [f EXCEPT !.pc = "query"]

\* scan_players for one player up to the storage query: cache_hit =
\* cache.get(player_id); `is not None` is a hit, whatever the value.
scan_players_get(c, now, player_id) ==
    LET cache_hit == TTLCache_get(c, now, player_id)
        f == [IdleLookup EXCEPT !.player = player_id]
    IN  IF cache_hit # {} THEN [f EXCEPT !.pc = "done", !.answer = cache_hit]
        ELSE [f EXCEPT !.pc = "query"]

LookupCall(s, player_id) ==
    /\ lookups[s].pc = "idle"
    /\ lookups' = [lookups EXCEPT ![s] = scan_players_get(cache, clock, player_id)]
    /\ UNCHANGED <<cache, clock, reported>>

\* await is_player_reported(db, player_id): storage answers the query.
LookupQuery(s) ==
    LET f == lookups[s]
    IN  /\ f.pc = "query"
        /\ lookups' = [lookups EXCEPT ![s] =
                          [f EXCEPT !.pc = "store", !.queried = TRUE,
                                    !.is_reported = (f.player \in reported)]]
        /\ UNCHANGED <<cache, clock, reported>>

\* The coroutine resumes: the result is written to the cache and used.
LookupStore(s) ==
    LET f == lookups[s]
    IN  /\ f.pc = "store"
        /\ cache' = TTLCache_setitem(cache, clock, f.player, f.is_reported)
        /\ lookups' = [lookups EXCEPT ![s] =
                          [f EXCEPT !.pc = "done", !.answer = {f.is_reported}]]
        /\ UNCHANGED <<clock, reported>>

\* The answer has been used; the coroutine is free for another lookup.
LookupReturn(s) ==
    /\ lookups[s].pc = "done"
    /\ lookups' = [lookups EXCEPT ![s] = IdleLookup]
    /\ UNCHANGED <<cache, clock, reported>>

\* The timer of the cache advances.
Tick ==
    /\ clock < MaxClock
    /\ clock' = clock + 1
    /\ UNCHANGED <<cache, reported, lookups>>

\* Storage changes under the cache: the first report on a player is created,
\* or the last one deleted.
StorageChange(player_id) ==
    /\ reported' = IF player_id \in reported THEN reported \ {player_id}
                   ELSE reported \cup {player_id}
    /\ UNCHANGED <<cache, clock, lookups>>

\* ------------------------------------------- enable / disable / save_config
Max(S) == CHOOSE x \in S : \A y \in S : y <= x

\* crud.integrations.create_integration_config: INSERT, flush and refresh;
\* the row gets the next id of the table's sequence.
create_integration_config(cfgs, params) ==
    LET id == Max(DOMAIN cfgs \cup {0}) + 1
    IN  [table |-> [i \in DOMAIN cfgs \cup {id} |->
                        IF i = id THEN Row(params) ELSE cfgs[i]],
         db_integration |-> Config(id, Row(params)),
         error |-> "none"]

\* crud.integrations.update_integration_config: UPDATE ... WHERE id =
\* config.id RETURNING the row; no row, NotFoundError.
update_integration_config(cfgs, config) ==
    IF config.id \in DOMAIN cfgs
    THEN [table |-> [cfgs EXCEPT ![config.id] = Row(config)],
          db_integration |-> Config(config.id, Row(config)),
          error |-> "none"]
    ELSE [table |-> cfgs, db_integration |-> config, error |-> "NotFoundError"]

\* A save_config that leaves self.config as it is when the row comes back.
save_config_keeps_config(config, db_config) == config

\* save_config once the row is back:
\* self.config = type(self.config).model_validate(db_config).
save_config_validate(config, db_config) == db_config

\* enable and disable up to save_config: the flag is set on the in-memory
\* config; save_config itself (op "save_config") sets nothing.
set_enabled(config, op) ==
    CASE op = "enable"  -> [config EXCEPT !.enabled = TRUE]
      [] op = "disable" -> [config EXCEPT !.enabled = FALSE]
      [] OTHER          -> config

\* Rows written by the statement of another operation whose caller has not
\* ended its transaction yet: an UPDATE of the same row waits for them.
RowLocked(o, id) ==
    \E o2 \in Ops \ {o} :
        ops[o2].pc \in {"resume", "done"} /\ ops[o2].result \in {"none", "ok"}
            /\ ops[o2].db_config.id = id

\* enable / disable / save_config up to the await of the statement, whose
\* values are those of the in-memory config at this point.
LifeCall(o, op) ==
    LET config == set_enabled(integration.config, op)
    IN  /\ ops[o].pc = "idle"
        /\ integration' = [integration EXCEPT !.config = config]
        /\ ops' = [ops EXCEPT ![o] = [IdleOp EXCEPT !.op = op, !.pc = "exec",
                                                    !.before = integration.config,
                                                    !.values = config]]
        /\ UNCHANGED configs

\* The statement of save_config runs in storage: INSERT for a config without
\* id, UPDATE for one with an id.
SaveExec(o) ==
    LET f == ops[o]
        r == IF f.values.id = 0 THEN create_integration_config(configs, f.values)
             ELSE update_integration_config(configs, f.values)
    IN  /\ f.pc = "exec"
        /\ r.db_integration.id <= NumConfigs
        /\ ~RowLocked(o, r.db_integration.id)
        /\ configs' = r.table
        /\ ops' = [ops EXCEPT ![o] =
                      IF r.error = "none"
                      THEN [f EXCEPT !.pc = "resume", !.db_config = r.db_integration]
                      ELSE [f EXCEPT !.pc = "done", !.result = r.error]]
        /\ UNCHANGED integration

\* save_config resumes with the row and returns it.
SaveResume(o) ==
    LET f == ops[o]
    IN  /\ f.pc = "resume"
        /\ integration' = [integration EXCEPT
                              !.config = save_config_validate(@, f.db_config)]
        /\ ops' = [ops EXCEPT ![o] = [f EXCEPT !.pc = "done", !.result = "ok"]]
        /\ UNCHANGED configs

\* The caller has the outcome and ends its transaction.
LifeReturn(o) ==
    /\ ops[o].pc = "done"
    /\ ops' = [ops EXCEPT ![o] = IdleOp]
    /\ UNCHANGED <<integration, configs>>

\* The row of a config is deleted from storage by a statement elsewhere.
ConfigDeleted(id) ==
    /\ id \in DOMAIN configs
    /\ ~RowLocked(0, id)
    /\ configs' = [i \in DOMAIN configs \ {id} |-> configs[i]]
    /\ UNCHANGED <<integration, ops>>

\* CustomIntegration.start_connection: self.ws.start().
StartConnection ==
    /\ integration.ws # "running"
    /\ integration' = [integration EXCEPT !.ws = "running"]
    /\ UNCHANGED <<ops, configs>>

\* CustomIntegration.stop_connection: self.ws.stop().
StopConnection ==
    /\ integration.ws = "running"
    /\ integration' = [integration EXCEPT !.ws = "stopped"]
    /\ UNCHANGED <<ops, configs>>

\* A disable that cancels the operations running on the integration.
disable_cancels_in_flight(cs) ==
    [c \in DOMAIN cs |->
        IF cs[c].pc \notin {"idle", "done"} THEN Finish(cs[c], "CancelledError", {})
        ELSE cs[c]]

\* Integration.disable as the operations running on the integration see
\* it: it sets the flag and saves the config, and touches no coroutine.
disable_in_flight(cs) == cs

\* disable is called while bulk operations run on the integration: some
\* operation is in flight and none has ended yet.
DisableCallInFlight(o) ==
    /\ \E c \in Calls : calls[c].pc \notin {"idle", "done"}
    /\ \A c \in Calls : calls[c].pc # "done"
    /\ LifeCall(o, "disable")
    /\ calls' = disable_in_flight(calls)
    /\ UNCHANGED bans

\* ------------------------------------------------------------- load_all
\* The classes load_all chooses from, in the order of the tuple.
INTEGRATION_TYPES == <<"BATTLEMETRICS", "COMMUNITY_RCON", "CUSTOM">>

\* The variant tags a row can carry: those of INTEGRATION_TYPES and one
\* that no class of the tuple has.
RowTypes == IntegrationTypes \cup {"UNKNOWN"}

\* organization_id of a row: None or an identifier.
OrganizationIds == {"none", "org"}

\* type_to_integration: the first class of the tuple with the tag, None
\* when there is none.
type_to_integration(integration_type) ==
    LET hits == SelectSeq(INTEGRATION_TYPES, LAMBDA cls : cls = integration_type)
    IN  IF hits = <<>> THEN "None" ELSE Head(hits)

\* config_cls.model_validate(db_config), TRUE when the row validates: the
\* tag is the Literal of the class and, for CRCON, organization_id is None.
model_validate(cls, db_config) ==
    /\ db_config.integration_type = cls
    /\ cls = "COMMUNITY_RCON" => db_config.organization_id = "none"

\* The body of the try block for one row up to the construction of the
\* instance: the exception it raises, "none" when it constructs.
construct(db_config) ==
    LET integration_cls == type_to_integration(db_config.integration_type)
    IN  IF integration_cls = "None" THEN "AttributeError"
        ELSE IF ~model_validate(integration_cls, db_config) THEN "ValidationError"
        ELSE "none"

\* IntegrationManager.add: the registry, keyed by config id, with the
\* instance of the config in it.
IntegrationManager_add(registry, config) ==
    {c \in registry : c.id # config.id} \cup {config}

\* An except block that logs the row and gives up the load.
load_all_except_aborts(m, id) ==
    [m EXCEPT !.logged = @ \cup {id}, !.todo = <<>>]

\* The bare except of load_all: the row is logged and the loop goes on with
\* the next row.
load_all_except(m, id) ==
    [m EXCEPT !.logged = @ \cup {id}, !.todo = Tail(@)]

\* load_all is called: a new manager, the rows of the table streamed.
LoadAllCall ==
    /\ manager.pc = "idle"
    /\ manager' = [pc |-> "loop", todo |-> SetToSeq(DOMAIN configs),
                   registry |-> {}, logged |-> {}]
    /\ UNCHANGED configs

\* One turn of the loop: the next row is constructed and registered, or the
\* exception of its construction is caught.
LoadRow ==
    /\ manager.pc = "loop"
    /\ manager.todo # <<>>
    /\ LET id == Head(manager.todo)
           db_config == configs[id]
       IN  manager' =
               IF construct(db_config) = "none"
               THEN [manager EXCEPT
                        !.registry = IntegrationManager_add(@, Config(id, db_config)),
                        !.todo = Tail(@)]
               ELSE load_all_except(manager, id)
    /\ UNCHANGED configs

\* The stream is exhausted: load_all returns.
LoadAllReturn ==
    /\ manager.pc = "loop"
    /\ manager.todo = <<>>
    /\ manager' = [manager EXCEPT !.pc = "done"]
    /\ UNCHANGED configs

\* ------------------------------------------------------------ scheduling
\* The caller has seen the outcome; the coroutine slot is free again.
Return(c) ==
    /\ calls[c].pc = "done"
    /\ calls' = [calls EXCEPT ![c] = Idle]
    /\ UNCHANGED bans

Batches == SUBSET Players \ {{}}

Next ==
    \E c \in Calls :
        \/ \E i \in Integrations, p \in Players : BanPlayerCall(c, i, p) /\ UNCHANGED notBanVars
        \/ BanPlayerReply(c) /\ UNCHANGED notBanVars
        \/ BanPlayerCommit(c) /\ UNCHANGED notBanVars
        \/ \E i \in Integrations, p \in Players : UnbanPlayerCall(c, i, p) /\ UNCHANGED notBanVars
        \/ UnbanPlayerDelete(c) /\ UNCHANGED notBanVars
        \/ UnbanPlayerReply(c) /\ UNCHANGED notBanVars
        \/ UnbanPlayerCommit(c) /\ UNCHANGED notBanVars
        \/ \E i \in Integrations, batch \in Batches : BulkBanCall(c, i, batch) /\ UNCHANGED notBanVars
        \/ BulkBanReply(c) /\ UNCHANGED notBanVars
        \/ BulkBanCommit(c) /\ UNCHANGED notBanVars
        \/ \E i \in Integrations, batch \in Batches : BulkUnbanCall(c, i, batch) /\ UNCHANGED notBanVars
        \/ BulkUnbanRead(c) /\ UNCHANGED notBanVars
        \/ BulkUnbanReply(c) /\ UNCHANGED notBanVars
        \/ BulkUnbanCommit(c) /\ UNCHANGED notBanVars
        \/ Return(c) /\ UNCHANGED notBanVars

Spec == Init /\ [][Next]_vars

\* Concurrent ban_player calls alone, from an empty table, against a backend
\* that accepts every ban request; the outcomes stay in the frames.
BanRaceNext ==
    \E c \in Racers :
        \/ \E i \in Integrations, p \in Players : BanPlayerCall(c, i, p) /\ UNCHANGED notBanVars
        \/ BanPlayerReplyWith(c, [kind |-> "ok", ids |-> calls[c].req]) /\ UNCHANGED notBanVars
        \/ BanPlayerCommit(c) /\ UNCHANGED notBanVars

SpecBanRace == Init /\ [][BanRaceNext]_vars

\* The community a config belongs to in the studied states: the configs are
\* dealt round over the communities, so that one community has several.
OwnerOf(i) == ((i - 1) % NumCommunities) + 1

\* One event of bans.py handled from any content of the two tables: configs
\* of any variant, enabled or not, and at most MaxTasks bans, stored by
\* ban_player. The tasks of the gather are the coroutines 1..MaxTasks.
InitDispatch ==
    /\ configs \in {[i \in ConfigIds |-> IntegrationConfig(OwnerOf(i), t[i], e[i], "none")] :
                        t \in [ConfigIds -> IntegrationTypes],
                        e \in [ConfigIds -> BOOLEAN]}
    /\ bans \in {{PlayerBan(x[1], x[2], x[2]) : x \in keys} :
                    keys \in {ks \in SUBSET (ConfigIds \X Players) :
                                 Cardinality(ks) <= MaxTasks}}
    /\ calls = [c \in Slots |-> Idle]
    /\ disp = NoEvent
    /\ InitCache
    /\ InitManager
    /\ InitLife

\* A player_ban or player_unban event and the tasks of its gather.
DispatchNext ==
    \/ \E cm \in Communities, p \in Players : OnPlayerBan(cm, p) /\ UNCHANGED auxVars
    \/ \E cm \in Communities, p \in Players : OnPlayerUnban(cm, p) /\ UNCHANGED auxVars
    \/ \E k \in Tasks :
        \/ TaskStart(k) /\ UNCHANGED auxVars
        \/ BanPlayerReply(k) /\ UNCHANGED notBanVars
        \/ BanPlayerCommit(k) /\ UNCHANGED notBanVars
        \/ UnbanPlayerDelete(k) /\ UNCHANGED notBanVars
        \/ UnbanPlayerReply(k) /\ UNCHANGED notBanVars
        \/ UnbanPlayerCommit(k) /\ UNCHANGED notBanVars
        \/ GatherRaise(k) /\ UNCHANGED auxVars
    \/ GatherReturn /\ UNCHANGED auxVars

SpecDispatch == InitDispatch /\ [][DispatchNext]_vars

\* The states the handlers that never read the enabled flag are studied
\* from: as InitDispatch, every config enabled.
InitAllEnabled ==
    /\ InitDispatch
    /\ \A i \in ConfigIds : configs[i].enabled

\* A report_delete event and the tasks of its gather.
ReportDeleteNext ==
    \/ \E ps \in Batches : \E rs \in SUBSET (Communities \X ps) : OnReportDelete(ps, rs) /\ UNCHANGED auxVars
    \/ \E k \in Tasks :
        \/ TaskStart(k) /\ UNCHANGED auxVars
        \/ UnbanPlayerDelete(k) /\ UNCHANGED notBanVars
        \/ UnbanPlayerReply(k) /\ UNCHANGED notBanVars
        \/ UnbanPlayerCommit(k) /\ UNCHANGED notBanVars
        \/ GatherRaise(k) /\ UNCHANGED auxVars
    \/ GatherReturn /\ UNCHANGED auxVars

SpecReportDelete == InitAllEnabled /\ [][ReportDeleteNext]_vars

\* Any of the three events and the tasks of its gather.
GatherNext ==
    \/ \E cm \in Communities, p \in Players : OnPlayerBan(cm, p) /\ UNCHANGED auxVars
    \/ \E cm \in Communities, p \in Players : OnPlayerUnban(cm, p) /\ UNCHANGED auxVars
    \/ \E ps \in Batches : \E rs \in SUBSET (Communities \X ps) : OnReportDelete(ps, rs) /\ UNCHANGED auxVars
    \/ \E k \in Tasks :
        \/ TaskStart(k) /\ UNCHANGED auxVars
        \/ BanPlayerReply(k) /\ UNCHANGED notBanVars
        \/ BanPlayerCommit(k) /\ UNCHANGED notBanVars
        \/ UnbanPlayerDelete(k) /\ UNCHANGED notBanVars
        \/ UnbanPlayerReply(k) /\ UNCHANGED notBanVars
        \/ UnbanPlayerCommit(k) /\ UNCHANGED notBanVars
        \/ GatherRaise(k) /\ UNCHANGED auxVars
    \/ GatherReturn /\ UNCHANGED auxVars

\* The event loop runs every task that is ready, and every request gets its
\* reply or its failure.
GatherFairness ==
    \A k \in Tasks :
        /\ WF_vars(TaskStart(k) /\ UNCHANGED auxVars)
        /\ WF_vars(BanPlayerReply(k) /\ UNCHANGED notBanVars)
        /\ WF_vars(BanPlayerCommit(k) /\ UNCHANGED notBanVars)
        /\ WF_vars(UnbanPlayerDelete(k) /\ UNCHANGED notBanVars)
        /\ WF_vars(UnbanPlayerReply(k) /\ UNCHANGED notBanVars)
        /\ WF_vars(UnbanPlayerCommit(k) /\ UNCHANGED notBanVars)

SpecGather == InitAllEnabled /\ [][GatherNext]_vars /\ GatherFairness

\* Lookups of scan_players, concurrent on the coroutines Lookups, while time
\* passes and storage changes.
CacheNext ==
    \/ \E sl \in Lookups :
        \/ \E p \in Players : LookupCall(sl, p) /\ UNCHANGED <<banVars, dispVars, lifeVars, manager>>
        \/ LookupQuery(sl) /\ UNCHANGED <<banVars, dispVars, lifeVars, manager>>
        \/ LookupStore(sl) /\ UNCHANGED <<banVars, dispVars, lifeVars, manager>>
        \/ LookupReturn(sl) /\ UNCHANGED <<banVars, dispVars, lifeVars, manager>>
    \/ Tick /\ UNCHANGED <<banVars, dispVars, lifeVars, manager>>
    \/ \E p \in Players : StorageChange(p) /\ UNCHANGED <<banVars, dispVars, lifeVars, manager>>

SpecCache == Init /\ [][CacheNext]_vars

\* What enable, disable and save_config leave alone.
notLifeVars == <<banVars, disp, cacheVars, manager>>

\* The states the lifecycle of an instance is studied from: a new config
\* that was never saved, or the config of a row in storage, enabled or not,
\* the websocket running or not.
InitConfig ==
    /\ bans = {}
    /\ calls = [c \in Slots |-> Idle]
    /\ disp = NoEvent
    /\ InitCache
    /\ InitManager
    /\ ops = [o \in Ops |-> IdleOp]
    /\ \E id \in {0, 1}, e \in BOOLEAN, w \in {"stopped", "running"} :
        /\ integration = [config |-> Config(id, IntegrationConfig(1, "CUSTOM", e, "none")),
                          ws |-> w]
        /\ configs = [i \in 1..id |-> IntegrationConfig(1, "CUSTOM", e, "none")]

\* enable, disable and save_config on one instance, concurrent on the
\* coroutines Ops, while its row may be deleted and its websocket started
\* and stopped.
ConfigNext ==
    \/ \E o \in Ops :
        \/ \E op \in {"enable", "disable", "save_config"} :
                LifeCall(o, op) /\ UNCHANGED notLifeVars
        \/ SaveExec(o) /\ UNCHANGED notLifeVars
        \/ SaveResume(o) /\ UNCHANGED notLifeVars
        \/ LifeReturn(o) /\ UNCHANGED notLifeVars
    \/ \E id \in ConfigIds : ConfigDeleted(id) /\ UNCHANGED notLifeVars
    \/ StartConnection /\ UNCHANGED notLifeVars
    \/ StopConnection /\ UNCHANGED notLifeVars

SpecConfig == InitConfig /\ [][ConfigNext]_vars

\* The states a disable during bulk operations is studied from: the saved,
\* enabled config of integration 1 and any bans of it, stored by
\* bulk_ban_players.
InitDisable ==
    /\ bans \in SUBSET {PlayerBan(1, p, RemoteBanId(p)) : p \in Players}
    /\ calls = [c \in Slots |-> Idle]
    /\ configs = [i \in {1} |-> IntegrationConfig(1, "CUSTOM", TRUE, "none")]
    /\ disp = NoEvent
    /\ InitCache
    /\ InitManager
    /\ InitLife

\* Bulk operations started on the enabled integration, and a disable called
\* while they run.
DisableNext ==
    \/ \E c \in Calls :
        \/ \E batch \in Batches :
            /\ integration.config.enabled
            /\ BulkBanCall(c, integration.config.id, batch)
            /\ UNCHANGED notBanVars
        \/ BulkBanReply(c) /\ UNCHANGED notBanVars
        \/ BulkBanCommit(c) /\ UNCHANGED notBanVars
        \/ \E batch \in Batches :
            /\ integration.config.enabled
            /\ BulkUnbanCall(c, integration.config.id, batch)
            /\ UNCHANGED notBanVars
        \/ BulkUnbanRead(c) /\ UNCHANGED notBanVars
        \/ BulkUnbanReply(c) /\ UNCHANGED notBanVars
        \/ BulkUnbanCommit(c) /\ UNCHANGED notBanVars
    \/ \E o \in Ops :
        \/ DisableCallInFlight(o) /\ UNCHANGED <<disp, cacheVars, manager>>
        \/ SaveExec(o) /\ UNCHANGED notLifeVars
        \/ SaveResume(o) /\ UNCHANGED notLifeVars
        \/ LifeReturn(o) /\ UNCHANGED notLifeVars

SpecDisable == InitDisable /\ [][DisableNext]_vars

\* What load_all leaves alone.
notLoadVars == <<banVars, disp, cacheVars, lifeVars>>

\* The tables load_all is studied on: rows of any variant tag, the unknown
\* one included, enabled or not, organization_id set or not.
InitLoad ==
    /\ bans = {}
    /\ calls = [c \in Slots |-> Idle]
    /\ configs \in [ConfigIds ->
            {IntegrationConfig(1, t, e, org) :
                t \in RowTypes, e \in BOOLEAN, org \in OrganizationIds}]
    /\ disp = NoEvent
    /\ InitCache
    /\ InitManager
    /\ InitLife

LoadNext ==
    \/ LoadAllCall /\ UNCHANGED notLoadVars
    \/ LoadRow /\ UNCHANGED notLoadVars
    \/ LoadAllReturn /\ UNCHANGED notLoadVars

SpecLoad == InitLoad /\ [][LoadNext]_vars

\* The tables the bulk operations are studied on: per (integration, player)
\* no BanRecord, the one ban_player stores or the one bulk_ban_players
\* stores.
InitBulk ==
    /\ bans \in {t \in SUBSET UNION {{PlayerBan(i, p, p), PlayerBan(i, p, RemoteBanId(p))} :
                                    i \in Integrations, p \in Players} :
                    \A i \in Integrations, p \in Players :
                        Cardinality(get_ban(t, i, p)) <= 1}
    /\ calls = [c \in Slots |-> Idle]
    /\ configs = [i \in ConfigIds |-> IntegrationConfig(1, "CUSTOM", TRUE, "none")]
    /\ disp = NoEvent
    /\ InitCache
    /\ InitManager
    /\ InitLife

\* bulk_ban_players and bulk_unban_players calls, concurrent on the event
\* loop.
BulkNext ==
    \E c \in Calls :
        \/ \E i \in Integrations, batch \in Batches : BulkBanCall(c, i, batch) /\ UNCHANGED notBanVars
        \/ BulkBanReply(c) /\ UNCHANGED notBanVars
        \/ BulkBanCommit(c) /\ UNCHANGED notBanVars
        \/ \E i \in Integrations, batch \in Batches : BulkUnbanCall(c, i, batch) /\ UNCHANGED notBanVars
        \/ BulkUnbanRead(c) /\ UNCHANGED notBanVars
        \/ BulkUnbanReply(c) /\ UNCHANGED notBanVars
        \/ BulkUnbanCommit(c) /\ UNCHANGED notBanVars
        \/ Return(c) /\ UNCHANGED notBanVars

SpecBulk == InitBulk /\ [][BulkNext]_vars

\* ================================================================ claims
\* The player of a single-player operation.
PlayerOf(f) == CHOOSE q \in f.batch : TRUE

\* The calls of operation op on the pair (i, p).
CallsOn(op, i, p) ==
    {c \in Slots : calls[c].op = op /\ calls[c].integ = i /\ calls[c].batch = {p}}

\* Call c of operation op ends in this step.
Ends(c, op) == calls[c].op = op /\ calls[c].pc # "done" /\ calls'[c].pc = "done"

\* Call c starts operation op in this step.
Starts(c, op) == calls[c].pc = "idle" /\ calls'[c].op = op

\* C1: in every reachable state, whatever the interleaving of ban_player,
\* bulk_ban_players, unban_player and bulk_unban_players calls, the table
\* holds at most one BanRecord for any (integration, player) pair.
C1_AtMostOneBanRecord ==
    \A r1 \in bans, r2 \in bans :
        (r1.integration_id = r2.integration_id /\ r1.player_id = r2.player_id)
            => r1 = r2

\* C1 witness: a ban_player that had its ban accepted by the backend was
\* refused by the unique key when it inserted, and the pair has its record.
C1_Witness ==
    \E c \in Calls :
        /\ calls[c].op = "ban_player" /\ calls[c].result = "AlreadyBannedError"
        /\ calls[c].sent >= 1
        /\ get_ban(bans, calls[c].integ, PlayerOf(calls[c])) # {}

\* C2: a ban_player call that finds a BanRecord for its (integration, player)
\* ends at once with AlreadyBannedError for that player, has sent no request
\* to the backend, and leaves the table as it was.
C2_GuardRefusesSecondBan ==
    [][\A c \in Calls :
        (/\ Starts(c, "ban_player")
         /\ get_ban(bans, calls'[c].integ, PlayerOf(calls'[c])) # {})
            => /\ calls'[c].pc = "done"
               /\ calls'[c].result = "AlreadyBannedError"
               /\ calls'[c].err_ids = calls'[c].batch
               /\ calls'[c].sent = 0
               /\ bans' = bans]_vars

\* C2 witness: a ban_player ended with AlreadyBannedError without a request,
\* its record in the table.
C2_Witness ==
    \E c \in Calls :
        /\ calls[c].op = "ban_player" /\ calls[c].result = "AlreadyBannedError"
        /\ calls[c].sent = 0
        /\ get_ban(bans, calls[c].integ, PlayerOf(calls[c])) # {}

\* C3: when the ban_player calls on one (integration, player) pair, started
\* with no BanRecord in the table and all accepted by the backend, have all
\* ended, exactly one of them returned and every other one failed with
\* AlreadyBannedError.
C3_OneBanWins ==
    \A i \in Integrations, p \in Players :
        LET cs == CallsOn("ban_player", i, p)
        IN  (cs # {} /\ \A c \in cs : calls[c].pc = "done")
                => /\ Cardinality({c \in cs : calls[c].result = "ok"}) = 1
                   /\ \A c \in cs : calls[c].result \in {"ok", "AlreadyBannedError"}

\* C3 witness: every call ran on the same pair, each had its request accepted
\* by the backend, and all have ended.
C3_Witness ==
    \E i \in Integrations, p \in Players :
        /\ CallsOn("ban_player", i, p) = Racers
        /\ \A c \in Racers : calls[c].pc = "done" /\ calls[c].sent = 1

\* C4: when the remote ban of a ban_player call fails (add_ban raises,
\* whatever the failure), the call ends with IntegrationBanError carrying its
\* player id, and it has created no BanRecord: the step leaves the table as
\* it was, and the call never reaches its insert.
C4_RemoteBanFailure ==
    [][\A c \in Calls :
        (Ends(c, "ban_player") /\ calls[c].pc = "wait")
            => /\ calls'[c].result = "IntegrationBanError"
               /\ calls'[c].err_ids = calls[c].batch
               /\ bans' = bans]_vars

\* C4 witness: a ban_player ended with IntegrationBanError after the backend
\* confirmed nothing, and its pair has no BanRecord.
C4_Witness ==
    \E c \in Calls :
        /\ calls[c].op = "ban_player" /\ calls[c].result = "IntegrationBanError"
        /\ calls[c].sent >= 1 /\ calls[c].acked = {}
        /\ get_ban(bans, calls[c].integ, PlayerOf(calls[c])) = {}

\* C5 as stated: when the remote unban of an unban_player call fails, the
\* call ends with IntegrationBanError and the BanRecord of its pair is gone.
C5_RecordGoneAfterFailure ==
    [][\A c \in Calls :
        (Ends(c, "unban_player") /\ calls[c].pc = "wait")
            => /\ calls'[c].result = "IntegrationBanError"
               /\ get_ban(bans', calls[c].integ, PlayerOf(calls[c])) = {}]_vars

\* C5 amended: when the remote unban of an unban_player call fails, the call
\* ends with IntegrationBanError carrying its player id and its flushed
\* DELETE is rolled back with the transaction: the table is left as it was,
\* and the row the call had deleted is in it.
C5_DeleteRolledBack ==
    [][\A c \in Calls :
        (Ends(c, "unban_player") /\ calls[c].pc = "wait")
            => /\ calls'[c].result = "IntegrationBanError"
               /\ calls'[c].err_ids = calls[c].batch
               /\ bans' = bans
               /\ calls[c].pend \subseteq bans']_vars

\* C5 witness: an unban_player that had found and deleted its BanRecord ended
\* with IntegrationBanError after the backend confirmed nothing, and the
\* BanRecord of its pair is in the table.
C5_Witness ==
    \E c \in Calls :
        /\ calls[c].op = "unban_player" /\ calls[c].result = "IntegrationBanError"
        /\ calls[c].sent >= 1 /\ calls[c].acked = {}
        /\ get_ban(bans, calls[c].integ, PlayerOf(calls[c])) # {}

\* C6: an unban_player call that finds no BanRecord for its (integration,
\* player) ends at once with NotFoundError, has sent no request to the
\* backend, and leaves the table as it was.
C6_UnbanWithoutRecord ==
    [][\A c \in Calls :
        (/\ Starts(c, "unban_player")
         /\ get_ban(bans, calls'[c].integ, PlayerOf(calls'[c])) = {})
            => /\ calls'[c].pc = "done"
               /\ calls'[c].result = "NotFoundError"
               /\ calls'[c].sent = 0
               /\ bans' = bans]_vars

\* C6 witness: an unban_player ended with NotFoundError without a request
\* while the other player does have a BanRecord.
C6_Witness ==
    \E c \in Calls :
        /\ calls[c].op = "unban_player" /\ calls[c].result = "NotFoundError"
        /\ calls[c].sent = 0
        /\ get_ban(bans, calls[c].integ, PlayerOf(calls[c])) = {}
        /\ bans # {}

\* C7: when a bulk_ban_players call ends, by return or by exception, every
\* player id the backend confirmed in its reply to the first request or to
\* the retry has a BanRecord under this integration.
C7_ConfirmedBansPersisted ==
    [][\A c \in Calls :
        Ends(c, "bulk_ban_players")
            => \A p \in calls'[c].acked : get_ban(bans', calls[c].integ, p) # {}]_vars

\* C7 witness: a bulk_ban_players call ended with an exception after a retry,
\* the backend had confirmed some but not all of its players, and the
\* confirmed ones have their BanRecord.
C7_Witness ==
    \E c \in Calls :
        /\ calls[c].op = "bulk_ban_players" /\ calls[c].pc = "done"
        /\ calls[c].result # "ok" /\ calls[c].sent = 2
        /\ calls[c].acked # {} /\ calls[c].acked # calls[c].batch
        /\ \A p \in calls[c].acked : get_ban(bans, calls[c].integ, p) # {}

\* C8 as stated: a bulk_ban_players call fails exactly when some requested
\* player id was confirmed by no pass, and then with IntegrationBulkBanError
\* listing exactly the unconfirmed ids.
C8_BulkBanErrorListsUnconfirmed ==
    \A c \in Calls :
        (calls[c].op = "bulk_ban_players" /\ calls[c].pc = "done")
            => LET unconfirmed == calls[c].batch \ calls[c].acked
               IN  /\ (calls[c].result = "ok") <=> (unconfirmed = {})
                   /\ calls[c].result # "ok"
                        => /\ calls[c].result = "IntegrationBulkBanError"
                           /\ calls[c].err_ids = unconfirmed

\* C9: when a bulk_unban_players call ends, by return or by exception, the
\* player of every ban id the backend confirmed removed in either pass has
\* no BanRecord under this integration, and the call has left the BanRecord
\* of every other requested player in place.
C9_ConfirmedUnbansDiscarded ==
    [][\A c \in Calls :
        Ends(c, "bulk_unban_players")
            => LET removed == {DictGet(calls[c].idmap, b) : b \in calls'[c].acked}
               IN  \A p \in calls[c].batch :
                     IF p \in removed
                     THEN get_ban(bans', calls[c].integ, p) = {}
                     ELSE get_ban(bans', calls[c].integ, p)
                            = get_ban(bans, calls[c].integ, p)]_vars

\* C9 witness: a bulk_unban_players call on every player ended with an
\* exception after a retry; the backend had confirmed the removal of one
\* player's ban, whose BanRecord is gone, and not of another's, whose
\* BanRecord is in the table.
C9_Witness ==
    \E c \in Calls :
        /\ calls[c].op = "bulk_unban_players" /\ calls[c].pc = "done"
        /\ calls[c].result # "ok" /\ calls[c].sent = 2
        /\ calls[c].batch = Players
        /\ \E p \in Players, q \in Players :
            /\ {p, RemoteBanId(p)} \cap calls[c].acked # {}
            /\ get_ban(bans, calls[c].integ, p) = {}
            /\ {q, RemoteBanId(q)} \cap calls[c].acked = {}
            /\ get_ban(bans, calls[c].integ, q) # {}

\* C10 as stated: a ban_player or unban_player call sends at most one request
\* to the backend.
C10_SingleNeverRetried ==
    \A c \in Calls :
        calls[c].op \in {"ban_player", "unban_player"} => calls[c].sent <= 1

\* The coroutines a handler hands to its gather, as (integration, player)
\* pairs.
Targets(d) == {<<d.coros[k].integ, d.coros[k].player>> : k \in DOMAIN d.coros}

\* The handler of event ev runs in this step.
Handles(ev) == disp.pc = "idle" /\ disp'.event = ev

\* Every coroutine of the handler is a call of op, and no pair has two.
EachOnce(d, op) ==
    /\ \A k \in DOMAIN d.coros : d.coros[k].op = op
    /\ Len(d.coros) = Cardinality(Targets(d))

\* C11 as stated: on a player_ban event for community C and player p, the
\* handler calls ban_player on exactly the enabled integrations of C that
\* hold no BanRecord for p, once each.
C11_BanOnEnabledWithoutRecord ==
    [][Handles("player_ban")
        => /\ EachOnce(disp', "ban_player")
           /\ Targets(disp')
                = {<<i, p>> \in ConfigIds \X disp'.players :
                      /\ configs[i].community_id = disp'.community
                      /\ configs[i].enabled
                      /\ get_ban(bans, i, p) = {}}]_vars

\* C12: in the gather of any of the three events, every task that was
\* created is started and runs to the end of its operation (return or its
\* own exception, never a cancellation), whatever the other tasks end with.
C12_EveryTaskCompletes ==
    \A k \in Tasks :
        (disp.pc \in {"gather", "done"} /\ k \in DOMAIN disp.coros)
            ~> (calls[k].pc = "done" /\ calls[k].result # "CancelledError")

\* C12 witness: the handler has ended with the exception of one task while
\* another task of the same gather is still waiting for its reply.
C12_Witness ==
    /\ disp.pc = "done" /\ disp.result \notin {"ok", "TypeError"}
    /\ \E k \in DOMAIN disp.coros, j \in DOMAIN disp.coros :
        /\ calls[k].pc = "done" /\ calls[k].result = disp.result
        /\ j # k /\ calls[j].pc = "wait"

\* C13 as stated: on a player_unban event for community C and player p, the
\* handler calls unban_player on exactly the integrations of C that hold a
\* BanRecord for p, once each, and on no integration of another community.
C13_UnbanOnHolders ==
    [][Handles("player_unban")
        => /\ EachOnce(disp', "unban_player")
           /\ Targets(disp')
                = {<<i, p>> \in ConfigIds \X disp'.players :
                      /\ configs[i].community_id = disp'.community
                      /\ get_ban(bans, i, p) # {}}]_vars

\* C14 as stated: on a report_deleted event, unban_player is called exactly
\* once for each BanRecord of a player of the report whose integration's
\* community has no banned=true response left for that player, and for no
\* other BanRecord; and the BanRecord is gone when such an unban returns.
C14_UnbanStaleBans ==
    [][/\ Handles("report_delete")
            => /\ EachOnce(disp', "unban_player")
               /\ Targets(disp')
                    = {<<i, p>> \in ConfigIds \X disp'.players :
                          /\ get_ban(bans, i, p) # {}
                          /\ <<configs[i].community_id, p>> \notin disp'.responses}
       /\ \A k \in Tasks :
            (Ends(k, "unban_player") /\ calls'[k].result = "ok")
                => get_ban(bans', calls[k].integ, PlayerOf(calls[k])) = {}]_vars

\* The cache holds an entry of the player that has not expired.
Holds(c, now, p) == c[p].present /\ now < c[p].expires

\* Lookup sl starts, for player p, in this step.
LookupStarts(sl, p) == lookups[sl].pc = "idle" /\ lookups'[sl].player = p

\* C15: a lookup for a player queries storage if and only if the cache holds
\* no unexpired entry for that player when it looks: on a hit, a cached
\* false included, it ends at once with the cached value, no query made and
\* the cache untouched; on a miss it goes to storage, and when it has the
\* result the cache holds that result for the player, unexpired, also when
\* the result is false.
C15_QueryIffMiss ==
    [][\A sl \in Lookups :
        /\ \A p \in Players :
            LookupStarts(sl, p)
                => IF Holds(cache, clock, p)
                   THEN /\ lookups'[sl].pc = "done"
                        /\ lookups'[sl].answer = {cache[p].value}
                        /\ ~lookups'[sl].queried
                        /\ cache' = cache
                   ELSE lookups'[sl].pc = "query"
        /\ lookups'[sl].queried => lookups[sl].pc \in {"query", "store", "done"}
        /\ (lookups[sl].pc = "store" /\ lookups'[sl].pc = "done")
                => /\ Holds(cache', clock', lookups[sl].player)
                   /\ cache'[lookups[sl].player].value = lookups[sl].is_reported
                   /\ lookups'[sl].answer = {lookups[sl].is_reported}]_vars

\* C15 witness: a lookup has ended on a hit, without a query, with the
\* cached answer false.
C15_Witness ==
    \E sl \in Lookups :
        /\ lookups[sl].pc = "done" /\ ~lookups[sl].queried
        /\ lookups[sl].answer = {FALSE}
        /\ Holds(cache, clock, lookups[sl].player)
        /\ ~cache[lookups[sl].player].value

\* C16 as stated: once a player's answer is cached, every lookup that ends
\* before the entry expires returns the cached answer, whatever has changed
\* in storage.
C16_AnswerFixedUntilExpiry ==
    [][\A sl \in Lookups :
        (/\ lookups[sl].pc # "done" /\ lookups'[sl].pc = "done"
         /\ Holds(cache, clock, lookups'[sl].player))
            => lookups'[sl].answer = {cache[lookups'[sl].player].value}]_vars

\* C16 amended: a lookup that finds an unexpired entry returns the cached
\* answer whatever storage holds, and leaves the entry and its expiry as they
\* are; a change in storage leaves the cache as it is; a lookup that finds
\* the entry expired (the time-to-live has elapsed since it was written)
\* goes to storage and returns the value it read there. (An unexpired entry
\* is still replaced by a concurrent lookup that had missed before the entry
\* was written.)
C16_StaleUntilExpiry ==
    [][/\ \A sl \in Lookups, p \in Players :
            LookupStarts(sl, p)
                => /\ cache' = cache
                   /\ IF cache[p].present /\ clock < cache[p].expires
                      THEN /\ lookups'[sl].pc = "done"
                           /\ lookups'[sl].answer = {cache[p].value}
                      ELSE lookups'[sl].pc = "query"
       /\ \A sl \in Lookups :
            /\ (lookups[sl].pc = "query" /\ lookups'[sl].pc = "store")
                    => lookups'[sl].is_reported = (lookups[sl].player \in reported)
            /\ (lookups[sl].pc = "store" /\ lookups'[sl].pc = "done")
                    => /\ lookups'[sl].answer = {lookups[sl].is_reported}
                       /\ cache'[lookups[sl].player]
                            = Entry(lookups[sl].is_reported, clock + ttl)
       /\ reported' # reported => cache' = cache]_vars

\* C16 witness: a lookup has ended on a hit with the cached answer false
\* although storage now has a report on the player, and another lookup has
\* found an entry with the answer false expired and read true from storage.
C16_Witness ==
    \E sl \in Lookups, s2 \in Lookups :
        /\ lookups[sl].pc = "done" /\ ~lookups[sl].queried
        /\ lookups[sl].answer = {FALSE}
        /\ lookups[sl].player \in reported
        /\ lookups[s2].pc = "store" /\ lookups[s2].is_reported
        /\ cache[lookups[s2].player].present
        /\ ~cache[lookups[s2].player].value
        /\ clock >= cache[lookups[s2].player].expires

\* The in-memory config of the instance equals the row storage holds under
\* its id.
InSync(inst, cfgs) ==
    /\ inst.config.id \in DOMAIN cfgs
    /\ cfgs[inst.config.id] = Row(inst.config)

\* C17: when a save_config returns (called directly or by enable or
\* disable), the in-memory config of the instance equals the persisted row
\* under its id, with enabled true after enable and false after disable in
\* both; and its statement has created a row, under a new id, when the
\* config had no id, and has updated the row of the config's id, and no
\* other, when it had one.
C17_ConfigInSyncAfterSave ==
    [][\A o \in Ops :
        /\ (ops[o].pc = "resume" /\ ops'[o].pc = "done")
            => /\ ops'[o].result = "ok"
               /\ InSync(integration', configs')
               /\ ops[o].op = "enable" => integration'.config.enabled
               /\ ops[o].op = "disable" => ~integration'.config.enabled
        /\ (ops[o].pc = "exec" /\ ops'[o].pc = "resume")
            => LET id == ops'[o].db_config.id
               IN  /\ configs'[id] = Row(ops[o].values)
                   /\ \A i \in DOMAIN configs : i # id => configs'[i] = configs[i]
                   /\ IF ops[o].values.id = 0
                      THEN id \notin DOMAIN configs
                            /\ DOMAIN configs' = DOMAIN configs \cup {id}
                      ELSE id = ops[o].values.id
                            /\ DOMAIN configs' = DOMAIN configs]_vars

\* C17 witness: a disable on a config that had no id has returned: its row
\* was created, and the in-memory config has the row's id and enabled=false
\* as the row has.
C17_Witness ==
    \E o \in Ops :
        /\ ops[o].op = "disable" /\ ops[o].pc = "done" /\ ops[o].result = "ok"
        /\ ops[o].values.id = 0
        /\ integration.config.id = ops[o].db_config.id
        /\ InSync(integration, configs)
        /\ ~configs[integration.config.id].enabled

\* C18 as stated: when a disable returns on the websocket-backed
\* integration, its connection is stopped.
C18_DisableStopsConnection ==
    [][\A o \in Ops :
        (ops[o].op = "disable" /\ ops[o].pc = "resume" /\ ops'[o].pc = "done")
            => integration'.ws = "stopped"]_vars

\* C19: when disable is called while bulk_ban_players or bulk_unban_players
\* calls on the integration are in flight, no call is cancelled, and every
\* call that ends afterwards, by return or by its own exception, has the
\* BanRecord of every player the backend confirmed banned in storage, and of
\* every player it confirmed unbanned out of it.
C19_InFlightBulkStillCommits ==
    [][\A c \in Calls :
        (\E o \in Ops : ops'[o].op = "disable")
            => /\ calls'[c].result # "CancelledError"
               /\ Ends(c, "bulk_ban_players")
                    => \A p \in calls'[c].acked : get_ban(bans', calls[c].integ, p) # {}
               /\ Ends(c, "bulk_unban_players")
                    => \A b \in calls'[c].acked :
                          get_ban(bans', calls[c].integ, DictGet(calls[c].idmap, b)) = {}]_vars

\* C19 witness: the disable has returned, the config is disabled in memory
\* and in storage, and a bulk_ban_players call that was in flight when it
\* was called has ended after a retry with the confirmed players, not all of
\* its batch, in storage.
C19_Witness ==
    /\ \E o \in Ops : ops[o].op = "disable" /\ ops[o].result = "ok"
    /\ ~integration.config.enabled /\ ~configs[1].enabled
    /\ \E c \in Calls :
        /\ calls[c].op = "bulk_ban_players" /\ calls[c].pc = "done"
        /\ calls[c].sent = 2
        /\ calls[c].acked # {} /\ calls[c].acked # calls[c].batch
        /\ \A p \in calls[c].acked : get_ban(bans, calls[c].integ, p) # {}

\* C20: when load_all has returned, every row of the Integration table that
\* constructs has its instance in the registry under its config id, and
\* every row that does not (a variant tag without a class, a config that
\* does not validate) was logged and is not in the registry; no row was left
\* out because another one failed.
C20_LoadAllSkipsBadRows ==
    manager.pc = "done" =>
        \A id \in DOMAIN configs :
            LET db_config == configs[id]
                good == /\ db_config.integration_type \in IntegrationTypes
                        /\ db_config.integration_type = "COMMUNITY_RCON"
                              => db_config.organization_id = "none"
            IN  /\ good => Config(id, db_config) \in manager.registry
                            /\ id \notin manager.logged
                /\ ~good => /\ \A c \in manager.registry : c.id # id
                            /\ id \in manager.logged

\* C20 witness: load_all has returned on a table whose first streamed row
\* has a tag without a class, a later row is a CRCON config that does not
\* validate, and a row after the bad ones was registered.
C20_Witness ==
    /\ manager.pc = "done"
    /\ \E bad1, bad2, ok \in DOMAIN configs :
        /\ bad1 = Head(SetToSeq(DOMAIN configs))
        /\ configs[bad1].integration_type = "UNKNOWN"
        /\ configs[bad2].integration_type = "COMMUNITY_RCON"
        /\ configs[bad2].organization_id = "org"
        /\ {bad1, bad2} \subseteq manager.logged
        /\ ok \notin {bad1, bad2}
        /\ Config(ok, configs[ok]) \in manager.registry

\* C21: a bulk_unban_players call whose batch holds a player without a
\* BanRecord of the integration does not fail on that player's account: the
\* turn of its loop that finds no BanRecord leaves the call running, and the
\* request it sends holds no ban id for that player.
C21_UnbanSkipsMissingBan ==
    [][\A c \in Calls :
        (/\ calls[c].op = "bulk_unban_players" /\ calls[c].pc = "read"
         /\ calls'[c] # calls[c]
         /\ \E p \in calls[c].todo :
                /\ get_ban(bans, calls[c].integ, p) = {}
                /\ p \notin calls'[c].todo \/ calls'[c].pc = "done")
            => /\ calls'[c].result # "AttributeError"
               /\ calls'[c].pc # "done"]_vars

\* The frame a bulk operation is left in by the reply to its request.
BulkCollect(f, reply) ==
    IF f.op = "bulk_ban_players"
    THEN Acked(f, bulk_ban_players_collect(f, reply), reply)
    ELSE Acked(f, bulk_unban_players_collect(f, reply), reply)

IsBulk(f) == f.op \in {"bulk_ban_players", "bulk_unban_players"}

\* C22: a bulk_ban_players or bulk_unban_players call sends at most 2
\* requests whatever its batch and the replies are; its second request goes
\* out only on a 'could not ban/unban all' reply to the first, and the
\* reply to the second request ends the generator: the call goes on to its
\* write or ends.
C22_AtMostTwoRequests ==
    [][\A c \in Calls :
        IsBulk(calls'[c]) =>
            /\ calls'[c].sent <= 2
            /\ (calls[c].sent = 1 /\ calls'[c].sent = 2) =>
                    \A reply \in Replies(calls[c].req) :
                        calls'[c] = BulkCollect(calls[c], reply) => reply.kind = "partial"
            /\ (calls[c].sent = 2 /\ calls[c].pc = "wait" /\ calls'[c] # calls[c]) =>
                    calls'[c].pc \in {"commit", "done"}]_vars

\* C22 witness: a bulk_unban_players call has ended after two requests, the
\* second of them refused.
C22_Witness ==
    \E c \in Calls :
        /\ calls[c].op = "bulk_unban_players" /\ calls[c].pc = "done"
        /\ calls[c].sent = 2
        /\ calls[c].result = "IntegrationCommandError"

\* C23: the second request of a bulk_ban_players or bulk_unban_players call
\* holds exactly the ids of its first request that the partial-failure
\* reply did not confirm: none of the confirmed ids, all of the others.
C23_RetryHoldsUnconfirmed ==
    [][\A c \in Calls :
        (IsBulk(calls[c]) /\ calls[c].sent = 1 /\ calls'[c].sent = 2)
            => calls'[c].req = calls[c].req \ calls'[c].acked]_vars

\* C23 witness: the retry of a bulk_ban_players call is in flight for the
\* part of its batch the first reply did not confirm.
C23_Witness ==
    \E c \in Calls :
        /\ calls[c].op = "bulk_ban_players" /\ calls[c].pc = "wait"
        /\ calls[c].sent = 2
        /\ calls[c].acked # {}
        /\ calls[c].req # {}
        /\ calls[c].req = calls[c].batch \ calls[c].acked

\* C24: when the reply to the first request of a bulk_ban_players or
\* bulk_unban_players call is an error other than 'could not ban/unban
\* all', the call ends at once with that error: nothing was yielded, no
\* second request goes out, and the PlayerBan table stays as it is.
C24_OtherErrorPropagates ==
    [][\A c \in Calls :
        (/\ IsBulk(calls[c]) /\ calls[c].pc = "wait" /\ calls[c].sent = 1
         /\ \E reply \in Replies(calls[c].req) :
                reply.kind = "error" /\ calls'[c] = BulkCollect(calls[c], reply))
            => /\ calls'[c].pc = "done"
               /\ calls'[c].result = "RemoteFailure"
               /\ calls'[c].sent = 1
               /\ calls'[c].got = {}
               /\ bans' = bans]_vars

\* C24 witness: a bulk_unban_players call has ended with the error of its
\* first and only request, and the BanRecord of every player of its batch
\* is still stored.
C24_Witness ==
    \E c \in Calls :
        /\ calls[c].op = "bulk_unban_players" /\ calls[c].pc = "done"
        /\ calls[c].result = "RemoteFailure"
        /\ calls[c].sent = 1
        /\ calls[c].acked = {}
        /\ \A p \in calls[c].batch : get_ban(bans, calls[c].integ, p) # {}

\* C25: two ban_player calls on the same (integration, player) never both
\* have a remote ban request out at the same time: no call passes its
\* guard while another call on the pair is past its own.
C25_NoTwoRemoteBans ==
    \A c, d \in Slots :
        (/\ c # d
         /\ calls[c].op = "ban_player" /\ calls[d].op = "ban_player"
         /\ calls[c].integ = calls[d].integ /\ calls[c].batch = calls[d].batch
         /\ calls[c].pc = "wait")
            => calls[d].pc # "wait"

\* C26: no step of a bulk_ban_players call removes or changes a BanRecord
\* the integration already has for a player of its batch, remote ban id
\* included, and the call does not end with an error on account of such a
\* player (AlreadyBannedError, IntegrityError).
C26_BulkBanKeepsExistingRecord ==
    [][\A c \in Calls :
        (calls[c].op = "bulk_ban_players" /\ calls'[c] # calls[c])
            => /\ \A p \in calls[c].batch :
                    get_ban(bans, calls[c].integ, p) \subseteq bans'
               /\ calls'[c].result \notin {"AlreadyBannedError", "IntegrityError"}]_vars

\* C26 witness: a bulk_ban_players call has returned after its write, the
\* backend having confirmed a player whose BanRecord, stored before by
\* ban_player, is still there with its own remote id.
C26_Witness ==
    \E c \in Calls :
        /\ calls[c].op = "bulk_ban_players" /\ calls[c].pc = "done"
        /\ calls[c].result = "ok"
        /\ \E p \in calls[c].acked :
            /\ PlayerBan(calls[c].integ, p, p) \in bans
            /\ calls[c].got = {<<q, RemoteBanId(q)>> : q \in calls[c].batch}

\* C27: the remote id of every BanRecord is the ban id the backend returned
\* for the ban of its player, whether ban_player or bulk_ban_players stored
\* the record.
C27_RemoteIdIsBackendBanId ==
    \A r \in bans : r.remote_id = RemoteBanId(r.player_id)

\* C28: the second request of a bulk_ban_players or bulk_unban_players call
\* is never empty: when the partial-failure reply to the first request
\* confirms every id of it, no second request goes out.
C28_NoEmptyRetry ==
    [][\A c \in Calls :
        (IsBulk(calls[c]) /\ calls[c].sent = 1 /\ calls'[c].sent = 2)
            => calls'[c].req # {}]_vars

\* C29: when the statement of an enable or disable fails (NotFoundError: the
\* row of the config is gone), the in-memory config of the instance, enabled
\* flag included, is the one it had when the operation was called.
C29_FailedSaveRestoresConfig ==
    [][\A o \in Ops :
        (/\ ops[o].op \in {"enable", "disable"}
         /\ ops[o].pc = "exec" /\ ops'[o].pc = "done"
         /\ ops'[o].result = "NotFoundError")
            => integration'.config = ops[o].before]_vars

\* C30: on a player_ban event for community C and player p, the handler
\* calls ban_player on every integration of C that holds no BanRecord for
\* p, whatever the variant tags of the integrations of C are.
C30_BanOnEveryVariant ==
    [][Handles("player_ban")
        => {<<i, p>> \in ConfigIds \X disp'.players :
                /\ configs[i].community_id = disp'.community
                /\ get_ban(bans, i, p) = {}}
             \subseteq Targets(disp')]_vars

====
